---- MODULE Spec2Model ----
(***************************************************************************)
(* neuralop/layers/transformer_block.py: get_normalization, normalize,     *)
(* TransformerEncoderBlock and TransformerDecoderBlock.                    *)
(*                                                                         *)
(* A tensor is a node of the computation graph of one forward call: the    *)
(* operation that produced it, the module attribute that was applied, the  *)
(* tensors it was computed from, its shape and its layout ("BNC" is        *)
(* channel-last, "BCN" channel-first).  A local variable of forward holds  *)
(* the index of a node, 0 for None / not bound.  A module that returns its *)
(* argument (nn.Identity) adds no node.                                    *)
(***************************************************************************)
EXTENDS Integers, Sequences, FiniteSets, TLC

VARIABLES
    pc,                \* "idle", the line forward executes next, "returned", "raised"
    req,               \* the arguments of the latest constructor call
    blk,               \* the block that exists (NoBlock when none does)
    err,               \* the exception raised by the latest call, "none" if none
    graph,             \* the tensors of the forward call in progress
    u, pos, u_attention_skip, u_mlp_skip,       \* locals of the forward methods
    pos_src, pos_qry, query_emb, u_out,
    ret                \* the returned tensor

locals == <<u, pos, u_attention_skip, u_mlp_skip, pos_src, pos_qry, query_emb, u_out, ret>>

vars == <<pc, req, blk, err, graph, locals>>

-----------------------------------------------------------------------------
(* Bounds and the argument values that are tried. *)

MaxBatch == 2
MaxPoints == 3

Batches == 1..MaxBatch
\* A point set holds at least two points (the normalization transforms take
\* their statistics over the points of a sample).
PointCounts == 2..MaxPoints

InOutChannels == {8, 16}
HiddenChannels == {8, 16, 128, 129, 160}
NDims == {2}
NumHeads == {4}
HeadChannels == {4}

NormKinds == {"none", "instance_norm", "group_norm", "layer_norm"}
NormArgs == NormKinds \cup {"batch_norm"}
BasisKinds == {"siren", "fourier", "linear"}
BasisArgs == BasisKinds \cup {"chebyshev"}

-----------------------------------------------------------------------------
(* Modules (layers).  Every module is a record of one shape:               *)
(*   kind  the class, "absent" for an attribute that was never assigned    *)
(*   a, b  input and output width (num_channels for a normalization)       *)
(*   g     num_groups of nn.GroupNorm; 1 for project_query=True, else 0    *)

Layer(kind, a, b, g) == [kind |-> kind, a |-> a, b |-> b, g |-> g]
Absent == Layer("absent", 0, 0, 0)
Identity == Layer("Identity", 0, 0, 0)
Linear(a, b) == Layer("Linear", a, b, 0)
MLPLinear(first, last) == Layer("MLPLinear", first, last, 0)
AttentionKernelIntegral(a, b, project_query) ==
    Layer("AttentionKernelIntegral", a, b, IF project_query THEN 1 ELSE 0)

\* A constructor call either returns a module or raises.
Ok(layer) == [ok |-> TRUE, layer |-> layer, err |-> "none"]
Raise(e) == [ok |-> FALSE, layer |-> Absent, err |-> e]

GroupThreshold == 128
ManyGroups == 32

\* num_groups=32 if channels > 128 else 1
NumGroups_ge(channels) == IF channels >= GroupThreshold THEN ManyGroups ELSE 1
NumGroups(channels) == IF channels > GroupThreshold THEN ManyGroups ELSE 1

\* nn.GroupNorm(num_groups, num_channels): raises ValueError unless
\* num_channels is divisible by num_groups.
GroupNorm(num_groups, channels) ==
    IF channels % num_groups # 0
    THEN Raise("ValueError_num_groups")
    ELSE Ok(Layer("GroupNorm", channels, channels, num_groups))

get_normalization_literal(norm, channels) ==
    IF norm = "instance_norm" THEN Ok(Layer("InstanceNorm1d", channels, channels, 0))
    ELSE IF norm = "group_norm" THEN GroupNorm(NumGroups(channels), channels)
    ELSE IF norm = "layer_norm" THEN Ok(Layer("LayerNorm", channels, channels, 0))
    ELSE Ok(Identity)

get_normalization(norm, channels) ==
    IF norm = "none" THEN Ok(Identity)
    ELSE IF norm = "instance_norm" THEN Ok(Layer("InstanceNorm1d", channels, channels, 0))
    ELSE IF norm = "group_norm" THEN GroupNorm(NumGroups(channels), channels)
    ELSE IF norm = "layer_norm" THEN Ok(Layer("LayerNorm", channels, channels, 0))
    ELSE Raise("ValueError_norm")

-----------------------------------------------------------------------------
(* Construction. *)

\* The attributes of a block; cls = "none" when no block exists.
NoBlock ==
    [cls |-> "none", n_dim |-> 0, in_channels |-> 0, out_channels |-> 0,
     hidden_channels |-> 0, num_heads |-> 0, head_n_channels |-> 0,
     use_mlp |-> FALSE, norm |-> "none", query_basis |-> "none",
     lifting |-> Absent, to_out |-> Absent, attention_norm |-> Absent,
     attention_layer |-> Absent, mlp_norm |-> Absent, mlp_layer |-> Absent,
     out_norm |-> Absent, query_basis_fn |-> Absent]

NoReq ==
    [cls |-> "none", n_dim |-> 0, in_channels |-> 0, out_channels |-> 0,
     hidden_channels |-> 0, num_heads |-> 0, head_n_channels |-> 0,
     use_mlp |-> FALSE, norm |-> "none", query_basis |-> "none"]

\* self.<name> = <ctor args>, lines 59-68 and 133-147
Attrs(r) ==
    [NoBlock EXCEPT !.cls = r.cls, !.n_dim = r.n_dim,
                    !.in_channels = r.in_channels, !.out_channels = r.out_channels,
                    !.hidden_channels = r.hidden_channels,
                    !.num_heads = r.num_heads, !.head_n_channels = r.head_n_channels,
                    !.use_mlp = r.use_mlp, !.norm = r.norm,
                    !.query_basis = r.query_basis]

\* nn.Linear(in, hidden) if in != hidden else nn.Identity()
Lifting_always(in_channels, hidden_channels) == Linear(in_channels, hidden_channels)
Lifting(in_channels, hidden_channels) ==
    IF in_channels # hidden_channels THEN Linear(in_channels, hidden_channels)
    ELSE Identity

\* encoder: nn.Linear(hidden, out) if hidden != out else nn.Identity()
EncoderToOut_hidden(hidden_channels, out_channels) == Identity
EncoderToOut(hidden_channels, out_channels) ==
    IF hidden_channels # out_channels THEN Linear(hidden_channels, out_channels)
    ELSE Identity

\* decoder: MLPLinear([hidden, hidden, out])
DecoderToOut(hidden_channels, out_channels) ==
    MLPLinear(hidden_channels, out_channels)

\* if self.use_mlp: self.mlp_norm = ...; self.mlp_layer = MLPLinear([hidden, .., hidden])
EncoderMlp_always(b) ==
    [b EXCEPT !.mlp_norm = get_normalization(b.norm, b.hidden_channels).layer,
              !.mlp_layer = MLPLinear(b.hidden_channels, b.hidden_channels)]
EncoderMlp(b) ==
    IF b.use_mlp
    THEN [b EXCEPT !.mlp_norm = get_normalization(b.norm, b.hidden_channels).layer,
                   !.mlp_layer = MLPLinear(b.hidden_channels, b.hidden_channels)]
    ELSE b

\* TransformerEncoderBlock.__init__: the block, or the error raised
EncoderInit(r) ==
    LET b0 == [Attrs(r) EXCEPT
                 !.lifting = Lifting(r.in_channels, r.hidden_channels),
                 !.to_out = EncoderToOut(r.hidden_channels, r.out_channels)]
        an == get_normalization(r.norm, r.hidden_channels)
        b1 == [b0 EXCEPT
                 !.attention_norm = an.layer,
                 !.attention_layer =
                     AttentionKernelIntegral(r.hidden_channels, r.hidden_channels, TRUE)]
    IN  IF ~an.ok THEN [ok |-> FALSE, blk |-> NoBlock, err |-> an.err]
        ELSE [ok |-> TRUE, blk |-> EncoderMlp(b1), err |-> "none"]

\* the query basis: SirenNet / Sequential(GaussianFourierFeatureTransform, Linear) / Linear
\* (g of the Fourier basis is the mapping_size of its feature transform)
QueryBasis(query_basis, n_dim, num_heads, head_n_channels) ==
    IF query_basis = "siren"
    THEN Ok(Layer("SirenNet", n_dim, num_heads * head_n_channels, 0))
    ELSE IF query_basis = "fourier"
    THEN Ok(Layer("Fourier", n_dim, num_heads * head_n_channels, head_n_channels))
    ELSE IF query_basis = "linear"
    THEN Ok(Linear(n_dim, num_heads * head_n_channels))
    ELSE Raise("ValueError_query_basis")

\* TransformerDecoderBlock.__init__
DecoderInit(r) ==
    LET b0 == [Attrs(r) EXCEPT
                 !.lifting = Lifting(r.in_channels, r.hidden_channels)]
        on == get_normalization(r.norm, r.hidden_channels)
        b1 == [b0 EXCEPT
                 !.out_norm = on.layer,
                 !.to_out = DecoderToOut(r.hidden_channels, r.out_channels)]
        qb == QueryBasis(r.query_basis, r.n_dim, r.num_heads, r.head_n_channels)
        b2 == [b1 EXCEPT !.query_basis_fn = qb.layer]
        an == get_normalization(r.norm, r.hidden_channels)
        b3 == [b2 EXCEPT
                 !.attention_norm = an.layer,
                 !.attention_layer =
                     AttentionKernelIntegral(r.hidden_channels, r.hidden_channels, FALSE)]
    IN  IF ~on.ok THEN [ok |-> FALSE, blk |-> NoBlock, err |-> on.err]
        ELSE IF ~qb.ok THEN [ok |-> FALSE, blk |-> NoBlock, err |-> qb.err]
        ELSE IF ~an.ok THEN [ok |-> FALSE, blk |-> NoBlock, err |-> an.err]
        ELSE [ok |-> TRUE, blk |-> b3, err |-> "none"]

-----------------------------------------------------------------------------
(* Tensors and the operations on them. *)

Node(op, layer, args, shape, layout) ==
    [op |-> op, layer |-> layer, args |-> args, shape |-> shape, layout |-> layout]

Input(name, shape) == Node("input", name, <<>>, shape, "BNC")

\* An operation returns the graph with its result added, or raises.
Res(g, out) == [ok |-> TRUE, g |-> g, out |-> out, err |-> "none"]
Fail(g, e) == [ok |-> FALSE, g |-> g, out |-> 0, err |-> e]
Put(g, node) == Res(Append(g, node), Len(g) + 1)

Width(g, x) == g[x].shape[3]
WithWidth(g, x, w) == <<g[x].shape[1], g[x].shape[2], w>>

\* module(x) for the collaborators that act on the last axis: MLPLinear and
\* SirenNet map the width they were built for to their final width, the
\* Fourier basis is the feature transform (sine and cosine, twice the
\* mapping size) followed by nn.Linear.
ApplyExternal(g, layer, name, x) ==
    IF layer.kind \in {"MLPLinear", "SirenNet"}
    THEN IF Width(g, x) # layer.a THEN Fail(g, "RuntimeError_shape")
         ELSE Put(g, Node(layer.kind, name, <<x>>, WithWidth(g, x, layer.b), g[x].layout))
    ELSE IF layer.kind = "Fourier"
    THEN IF Width(g, x) # layer.a THEN Fail(g, "RuntimeError_shape")
         ELSE LET f == Put(g, Node("GaussianFourierFeatureTransform", name, <<x>>,
                                   WithWidth(g, x, 2 * layer.g), g[x].layout))
              IN  Put(f.g, Node("Linear", name, <<f.out>>,
                                WithWidth(g, x, layer.b), g[x].layout))
    ELSE Fail(g, "AttributeError")

\* module(x): nn.Identity returns its argument, nn.Linear needs the width it
\* was built for on the last axis.
Apply(g, layer, name, x) ==
    IF layer.kind = "Identity" THEN Res(g, x)
    ELSE IF layer.kind = "Linear"
    THEN IF Width(g, x) # layer.a THEN Fail(g, "RuntimeError_shape")
         ELSE Put(g, Node("Linear", name, <<x>>, WithWidth(g, x, layer.b), g[x].layout))
    ELSE ApplyExternal(g, layer, name, x)

\* norm_fn(u): InstanceNorm1d normalizes axis 2 of whatever (B, C, L) it is
\* given, GroupNorm needs num_channels on axis 1, LayerNorm on the last axis.
NormFn(g, norm_fn, name, x) ==
    LET same == Node(norm_fn.kind, name, <<x>>, g[x].shape, g[x].layout)
    IN  IF norm_fn.kind = "Identity" THEN Res(g, x)
        ELSE IF norm_fn.kind = "InstanceNorm1d" THEN Put(g, same)
        ELSE IF norm_fn.kind = "GroupNorm"
        THEN IF g[x].shape[2] # norm_fn.a THEN Fail(g, "RuntimeError_shape")
             ELSE Put(g, same)
        ELSE IF norm_fn.kind = "LayerNorm"
        THEN IF g[x].shape[3] # norm_fn.a THEN Fail(g, "RuntimeError_shape")
             ELSE Put(g, same)
        ELSE Fail(g, "AttributeError")

\* u.permute(0, 2, 1).contiguous()
Permute(g, x) ==
    Put(g, Node("permute", "", <<x>>,
                <<g[x].shape[1], g[x].shape[3], g[x].shape[2]>>,
                IF g[x].layout = "BNC" THEN "BCN" ELSE "BNC"))

NeedsChannelFirst(norm_fn) == norm_fn.kind \in {"GroupNorm", "InstanceNorm1d"}

normalize_noBack(g, x, norm_fn, name) ==
    IF NeedsChannelFirst(norm_fn)
    THEN LET p == Permute(g, x) IN NormFn(p.g, norm_fn, name, p.out)
    ELSE NormFn(g, norm_fn, name, x)

normalize(g, x, norm_fn, name) ==
    IF NeedsChannelFirst(norm_fn)
    THEN LET p == Permute(g, x)
             n == NormFn(p.g, norm_fn, name, p.out)
         IN  IF ~n.ok THEN n ELSE Permute(n.g, n.out)
    ELSE NormFn(g, norm_fn, name, x)

\* a + b, with broadcasting
Add(g, a, b) ==
    LET sa == g[a].shape
        sb == g[b].shape
        Max(i) == IF sa[i] >= sb[i] THEN sa[i] ELSE sb[i]
    IN  IF \E i \in 1..3 : sa[i] # sb[i] /\ sa[i] # 1 /\ sb[i] # 1
        THEN Fail(g, "RuntimeError_shape")
        ELSE Put(g, Node("add", "", <<a, b>>, <<Max(1), Max(2), Max(3)>>, g[a].layout))

\* AttentionKernelIntegral.forward(u_src, pos_src, u_qry, pos_qry): the values
\* at the query points, at the source points when no query is given.
Attention(g, layer, name, x_src, p_src, x_qry, p_qry) ==
    IF layer.kind # "AttentionKernelIntegral" THEN Fail(g, "AttributeError")
    ELSE LET q == IF x_qry = 0 THEN x_src ELSE x_qry
         IN  Put(g, Node("attention", name, <<x_src, p_src, x_qry, p_qry>>,
                         <<g[x_src].shape[1], g[q].shape[2], layer.b>>, g[x_src].layout))

\* query_emb.view(batch, -1, width)
View(g, x, batch, width) ==
    LET numel == g[x].shape[1] * g[x].shape[2] * g[x].shape[3]
    IN  IF numel % (batch * width) # 0 THEN Fail(g, "RuntimeError_shape")
        ELSE Put(g, Node("view", "", <<x>>,
                         <<batch, numel \div (batch * width), width>>, g[x].layout))

\* query_emb.expand(batch, -1, -1): only an axis of size 1 is expanded
Expand(g, x, batch) ==
    IF g[x].shape[1] # batch /\ g[x].shape[1] # 1 THEN Fail(g, "RuntimeError_expand")
    ELSE Put(g, Node("expand", "", <<x>>, <<batch, g[x].shape[2], g[x].shape[3]>>,
                     g[x].layout))

-----------------------------------------------------------------------------
(* The steps of the two forward methods that are more than an assignment. *)

\* self.attention_layer(u_src=normalize(u, self.attention_norm), pos_src=pos)
EncoderAttention_postNorm(g, b, x, p) ==
    LET a == Attention(g, b.attention_layer, "attention_layer", x, p, 0, 0)
    IN  IF ~a.ok THEN a ELSE normalize(a.g, a.out, b.attention_norm, "attention_norm")
EncoderAttention(g, b, x, p) ==
    LET n == normalize(g, x, b.attention_norm, "attention_norm")
    IN  IF ~n.ok THEN n
        ELSE Attention(n.g, b.attention_layer, "attention_layer", n.out, p, 0, 0)

\* self.mlp_layer(normalize(u, self.mlp_norm))
EncoderFeedForward(g, b, x) ==
    LET n == normalize(g, x, b.mlp_norm, "mlp_norm")
    IN  IF ~n.ok THEN n ELSE Apply(n.g, b.mlp_layer, "mlp_layer", n.out)

\* if pos_qry is None: pos_qry = pos_src
DefaultQuery_none(p_qry, p_src) == p_qry
DefaultQuery(p_qry, p_src) == IF p_qry = 0 THEN p_src ELSE p_qry

\* self.query_basis_fn(pos_qry)
QueryEmbedding(g, b, p_qry) ==
    IF p_qry = 0 THEN Fail(g, "TypeError")
    ELSE Apply(g, b.query_basis_fn, "query_basis_fn", p_qry)

\* if query_emb.shape[0] != u.shape[0]: query_emb = query_emb.expand(u.shape[0], -1, -1)
Broadcast_never(g, q, x) == Res(g, q)
Broadcast(g, q, x) ==
    IF g[q].shape[1] # g[x].shape[1] THEN Expand(g, q, g[x].shape[1]) ELSE Res(g, q)

\* self.attention_layer(u_src=u, pos_src=pos_src, u_qry=query_emb, pos_qry=pos_qry)
DecoderAttention_self(g, b, x, p_src, q, p_qry) ==
    Attention(g, b.attention_layer, "attention_layer", x, p_src, 0, 0)
DecoderAttention(g, b, x, p_src, q, p_qry) ==
    Attention(g, b.attention_layer, "attention_layer", x, p_src, q, p_qry)

\* self.to_out(normalize(u_out, self.out_norm))
DecoderOut(g, b, x) ==
    LET n == normalize(g, x, b.out_norm, "out_norm")
    IN  IF ~n.ok THEN n ELSE Apply(n.g, b.to_out, "to_out", n.out)

-----------------------------------------------------------------------------
(* The state machine. *)

Init ==
    /\ pc = "idle"
    /\ req = NoReq
    /\ blk = NoBlock
    /\ err = "none"
    /\ graph = <<>>
    /\ u = 0 /\ pos = 0 /\ u_attention_skip = 0 /\ u_mlp_skip = 0
    /\ pos_src = 0 /\ pos_qry = 0 /\ query_emb = 0 /\ u_out = 0 /\ ret = 0

EncoderReq(in_channels, out_channels, hidden_channels, num_heads, head_n_channels, use_mlp, norm) ==
    [NoReq EXCEPT !.cls = "encoder",
                  !.in_channels = in_channels, !.out_channels = out_channels,
                  !.hidden_channels = hidden_channels, !.num_heads = num_heads,
                  !.head_n_channels = head_n_channels, !.use_mlp = use_mlp,
                  !.norm = norm]

DecoderReq(n_dim, in_channels, out_channels, hidden_channels, num_heads, head_n_channels, query_basis, norm) ==
    [NoReq EXCEPT !.cls = "decoder", !.n_dim = n_dim,
                  !.in_channels = in_channels, !.out_channels = out_channels,
                  !.hidden_channels = hidden_channels, !.num_heads = num_heads,
                  !.head_n_channels = head_n_channels, !.use_mlp = TRUE,
                  !.query_basis = query_basis, !.norm = norm]

\* TransformerEncoderBlock(...)
NewEncoder ==
    /\ pc = "idle" /\ blk.cls = "none"
    /\ \E i \in InOutChannels, o \in InOutChannels, h \in HiddenChannels,
          nh \in NumHeads, hc \in HeadChannels, m \in BOOLEAN, n \in NormArgs :
          LET r == EncoderReq(i, o, h, nh, hc, m, n)
              c == EncoderInit(r)
          IN  req' = r /\ blk' = c.blk /\ err' = c.err
    /\ UNCHANGED <<pc, graph, locals>>

\* TransformerDecoderBlock(...)
NewDecoder ==
    /\ pc = "idle" /\ blk.cls = "none"
    /\ \E d \in NDims, i \in InOutChannels, o \in InOutChannels, h \in HiddenChannels,
          nh \in NumHeads, hc \in HeadChannels, q \in BasisArgs, n \in NormArgs :
          LET r == DecoderReq(d, i, o, h, nh, hc, q, n)
              c == DecoderInit(r)
          IN  req' = r /\ blk' = c.blk /\ err' = c.err
    /\ UNCHANGED <<pc, graph, locals>>

\* One statement of forward: the operation's result is bound and control
\* moves on, or the exception it raised ends the call.
Goes(r, next) ==
    /\ graph' = r.g
    /\ pc' = IF r.ok THEN next ELSE "raised"
    /\ err' = r.err
    /\ UNCHANGED <<req, blk>>

Bind(r, x) == IF r.ok THEN r.out ELSE x

\* encoder.forward(u, pos)
EncoderForward ==
    /\ pc = "idle" /\ blk.cls = "encoder"
    /\ \E B \in Batches, N \in PointCounts, d \in NDims :
          graph' = << Input("u", <<B, N, blk.in_channels>>),
                      Input("pos", <<B, N, d>>) >>
    /\ u' = 1 /\ pos' = 2
    /\ pc' = "e96" /\ err' = "none"
    /\ UNCHANGED <<req, blk, u_attention_skip, u_mlp_skip, pos_src, pos_qry,
                   query_emb, u_out, ret>>

\* u = self.lifting(u)
E96 ==
    /\ pc = "e96"
    /\ LET r == Apply(graph, blk.lifting, "lifting", u)
       IN  Goes(r, "e97") /\ u' = Bind(r, u)
    /\ UNCHANGED <<pos, u_attention_skip, u_mlp_skip, pos_src, pos_qry,
                   query_emb, u_out, ret>>

\* u_attention_skip = u
E97 ==
    /\ pc = "e97"
    /\ u_attention_skip' = u
    /\ pc' = "e98"
    /\ UNCHANGED <<req, blk, err, graph, u, pos, u_mlp_skip, pos_src, pos_qry,
                   query_emb, u_out, ret>>

\* u = self.attention_layer(u_src=normalize(u, self.attention_norm), pos_src=pos, ...)
E98 ==
    /\ pc = "e98"
    /\ LET r == EncoderAttention(graph, blk, u, pos)
       IN  Goes(r, "e102") /\ u' = Bind(r, u)
    /\ UNCHANGED <<pos, u_attention_skip, u_mlp_skip, pos_src, pos_qry,
                   query_emb, u_out, ret>>

\* u = u + u_attention_skip
E102 ==
    /\ pc = "e102"
    /\ LET r == Add(graph, u, u_attention_skip)
       IN  Goes(r, "e103") /\ u' = Bind(r, u)
    /\ UNCHANGED <<pos, u_attention_skip, u_mlp_skip, pos_src, pos_qry,
                   query_emb, u_out, ret>>

\* if self.use_mlp:
E103 ==
    /\ pc = "e103"
    /\ pc' = IF blk.use_mlp THEN "e104" ELSE "e107"
    /\ UNCHANGED <<req, blk, err, graph, locals>>

\* u_mlp_skip = u
E104 ==
    /\ pc = "e104"
    /\ u_mlp_skip' = u
    /\ pc' = "e105"
    /\ UNCHANGED <<req, blk, err, graph, u, pos, u_attention_skip, pos_src, pos_qry,
                   query_emb, u_out, ret>>

\* u = self.mlp_layer(normalize(u, self.mlp_norm))
E105 ==
    /\ pc = "e105"
    /\ LET r == EncoderFeedForward(graph, blk, u)
       IN  Goes(r, "e106") /\ u' = Bind(r, u)
    /\ UNCHANGED <<pos, u_attention_skip, u_mlp_skip, pos_src, pos_qry,
                   query_emb, u_out, ret>>

\* u = u + u_mlp_skip
E106 ==
    /\ pc = "e106"
    /\ LET r == Add(graph, u, u_mlp_skip)
       IN  Goes(r, "e107") /\ u' = Bind(r, u)
    /\ UNCHANGED <<pos, u_attention_skip, u_mlp_skip, pos_src, pos_qry,
                   query_emb, u_out, ret>>

\* u = self.to_out(u)
E107 ==
    /\ pc = "e107"
    /\ LET r == Apply(graph, blk.to_out, "to_out", u)
       IN  Goes(r, "e108") /\ u' = Bind(r, u)
    /\ UNCHANGED <<pos, u_attention_skip, u_mlp_skip, pos_src, pos_qry,
                   query_emb, u_out, ret>>

\* return u
E108 ==
    /\ pc = "e108"
    /\ ret' = u
    /\ pc' = "returned"
    /\ UNCHANGED <<req, blk, err, graph, u, pos, u_attention_skip, u_mlp_skip,
                   pos_src, pos_qry, query_emb, u_out>>

\* decoder.forward(u, pos_src, pos_qry=...): pos_qry is omitted, is pos_src
\* itself, or is another point set with its own batch size and point count
DecoderForward ==
    /\ pc = "idle" /\ blk.cls = "decoder"
    /\ \E B \in Batches, N \in PointCounts :
          LET given == << Input("u", <<B, N, blk.in_channels>>),
                          Input("pos_src", <<B, N, blk.n_dim>>) >>
          IN  \/ graph' = given /\ pos_qry' \in {0, 2}
              \/ \E Bq \in Batches, Nq \in PointCounts :
                    /\ graph' = Append(given, Input("pos_qry", <<Bq, Nq, blk.n_dim>>))
                    /\ pos_qry' = 3
    /\ u' = 1 /\ pos_src' = 2
    /\ pc' = "d187" /\ err' = "none"
    /\ UNCHANGED <<req, blk, pos, u_attention_skip, u_mlp_skip, query_emb, u_out, ret>>

\* u = self.lifting(u)
D187 ==
    /\ pc = "d187"
    /\ LET r == Apply(graph, blk.lifting, "lifting", u)
       IN  Goes(r, "d188") /\ u' = Bind(r, u)
    /\ UNCHANGED <<pos, u_attention_skip, u_mlp_skip, pos_src, pos_qry,
                   query_emb, u_out, ret>>

\* if pos_qry is None: pos_qry = pos_src
D188 ==
    /\ pc = "d188"
    /\ pos_qry' = DefaultQuery(pos_qry, pos_src)
    /\ pc' = "d190"
    /\ UNCHANGED <<req, blk, err, graph, u, pos, u_attention_skip, u_mlp_skip,
                   pos_src, query_emb, u_out, ret>>

\* query_emb = self.query_basis_fn(pos_qry)
D190 ==
    /\ pc = "d190"
    /\ LET r == QueryEmbedding(graph, blk, pos_qry)
       IN  Goes(r, "d191") /\ query_emb' = Bind(r, query_emb)
    /\ UNCHANGED <<u, pos, u_attention_skip, u_mlp_skip, pos_src, pos_qry,
                   u_out, ret>>

\* query_emb = query_emb.view(pos_qry.shape[0], -1, self.num_heads * self.head_n_channels)
D191 ==
    /\ pc = "d191"
    /\ LET r == View(graph, query_emb, graph[pos_qry].shape[1],
                     blk.num_heads * blk.head_n_channels)
       IN  Goes(r, "d192") /\ query_emb' = Bind(r, query_emb)
    /\ UNCHANGED <<u, pos, u_attention_skip, u_mlp_skip, pos_src, pos_qry,
                   u_out, ret>>

\* if query_emb.shape[0] != u.shape[0]: query_emb = query_emb.expand(u.shape[0], -1, -1)
D192 ==
    /\ pc = "d192"
    /\ LET r == Broadcast(graph, query_emb, u)
       IN  Goes(r, "d194") /\ query_emb' = Bind(r, query_emb)
    /\ UNCHANGED <<u, pos, u_attention_skip, u_mlp_skip, pos_src, pos_qry,
                   u_out, ret>>

\* u_out = self.attention_layer(u_src=u, pos_src=pos_src, u_qry=query_emb, pos_qry=pos_qry, ...)
D194 ==
    /\ pc = "d194"
    /\ LET r == DecoderAttention(graph, blk, u, pos_src, query_emb, pos_qry)
       IN  Goes(r, "d200") /\ u_out' = Bind(r, u_out)
    /\ UNCHANGED <<u, pos, u_attention_skip, u_mlp_skip, pos_src, pos_qry,
                   query_emb, ret>>

\* u_out = self.to_out(normalize(u_out, self.out_norm))
D200 ==
    /\ pc = "d200"
    /\ LET r == DecoderOut(graph, blk, u_out)
       IN  Goes(r, "d201") /\ u_out' = Bind(r, u_out)
    /\ UNCHANGED <<u, pos, u_attention_skip, u_mlp_skip, pos_src, pos_qry,
                   query_emb, ret>>

\* return u_out
D201 ==
    /\ pc = "d201"
    /\ ret' = u_out
    /\ pc' = "returned"
    /\ UNCHANGED <<req, blk, err, graph, u, pos, u_attention_skip, u_mlp_skip,
                   pos_src, pos_qry, query_emb, u_out>>

\* The call is over (it returned or raised): its tensors go, the block stays.
EndCall ==
    /\ pc \in {"returned", "raised"}
    /\ pc' = "idle"
    /\ graph' = <<>>
    /\ u' = 0 /\ pos' = 0 /\ u_attention_skip' = 0 /\ u_mlp_skip' = 0
    /\ pos_src' = 0 /\ pos_qry' = 0 /\ query_emb' = 0 /\ u_out' = 0 /\ ret' = 0
    /\ UNCHANGED <<req, blk, err>>

Next ==
    \/ NewEncoder \/ NewDecoder
    \/ EncoderForward \/ E96 \/ E97 \/ E98 \/ E102 \/ E103 \/ E104 \/ E105 \/ E106
    \/ E107 \/ E108
    \/ DecoderForward \/ D187 \/ D188 \/ D190 \/ D191 \/ D192 \/ D194 \/ D200 \/ D201
    \/ EndCall

Spec == Init /\ [][Next]_vars

-----------------------------------------------------------------------------
(* What the properties below speak about. *)

InCall == pc # "idle"
InEncoder == blk.cls = "encoder" /\ InCall
InDecoder == blk.cls = "decoder" /\ InCall

Nodes == 1..Len(graph)
BatchOf(x) == graph[x].shape[1]
PointsOf(x) == graph[x].shape[2]

\* The query point set of a decoder call: the one passed, else the source's.
QuerySet == IF Len(graph) >= 3 /\ graph[3].op = "input" THEN 3 ELSE 2

NormNames == {"attention_norm", "mlp_norm", "out_norm"}

\* n is normalize(s, self.<name>)
NormOf(n, s, name) ==
    IF blk[name].kind = "Identity" THEN n = s
    ELSE IF NeedsChannelFirst(blk[name])
    THEN /\ graph[n].op = "permute"
         /\ LET m == graph[n].args[1]
            IN  /\ graph[m].layer = name
                /\ graph[graph[m].args[1]].op = "permute"
                /\ graph[graph[m].args[1]].args[1] = s
    ELSE graph[n].layer = name /\ graph[n].args[1] = s

-----------------------------------------------------------------------------
Broadcasted ==
    /\ pc # "raised"
    /\ pc \in {"d194", "d200", "d201", "returned"} =>
          graph[query_emb].op = "expand" /\ BatchOf(query_emb) = BatchOf(1)
    /\ \A k \in Nodes : graph[k].op = "attention" =>
          graph[k].args[3] = query_emb /\ BatchOf(query_emb) = BatchOf(1)
    /\ pc = "returned" => BatchOf(ret) = BatchOf(1)

C4_DefaultIsSource ==
    (InDecoder /\ pos_qry \in {0, pos_src}) =>
        /\ pc \in {"d190", "d191", "d192", "d194", "d200", "d201", "returned"} =>
              pos_qry = pos_src
        /\ \A k \in Nodes :
              /\ graph[k].layer = "query_basis_fn" /\ graph[graph[k].args[1]].op = "input"
                    => graph[k].args[1] = pos_src
              /\ graph[k].op = "attention"
                    => graph[k].args[2] = pos_src /\ graph[k].args[4] = pos_src
        /\ pc # "raised"
        /\ pc = "returned" => PointsOf(ret) = PointsOf(pos_src)

C4_Step == (pc = "d188" /\ pos_qry \in {0, pos_src}) => pos_qry' = pos_src

C4_DefaultQueryEquivalent == [][C4_Step]_vars /\ []C4_DefaultIsSource

C4_Witness ==
    /\ InDecoder /\ pc = "returned" /\ QuerySet = 2 /\ pos_qry = pos_src
    /\ PointsOf(ret) = 3 /\ PointsOf(pos_src) = 3

ConfigErrors == {"ValueError_norm", "ValueError_query_basis"}
ValueErrors == ConfigErrors \cup {"ValueError_num_groups"}

\* C5: a constructor given an unknown normalization kind, or a decoder
\* constructor given an unknown basis, raises ValueError and leaves no block, so
\* forward only ever runs on a block whose kinds are valid; with valid kinds
\* neither of the two configuration errors is raised.
C5_BadConfigRaises ==
    /\ (req.cls # "none" /\ req.norm \notin NormKinds)
          => blk = NoBlock /\ err = "ValueError_norm"
    /\ (req.cls = "decoder" /\ req.query_basis \notin BasisKinds)
          => blk = NoBlock /\ err \in ValueErrors
    /\ (req.cls = "decoder" /\ req.query_basis \notin BasisKinds /\ req.norm = "none")
          => err = "ValueError_query_basis"
    /\ (req.cls # "none" /\ req.norm \in NormKinds
        /\ (req.cls = "decoder" => req.query_basis \in BasisKinds))
          => err \notin ConfigErrors
    /\ InCall => /\ blk.cls # "none" /\ blk.norm \in NormKinds
                 /\ blk.cls = "decoder" => blk.query_basis \in BasisKinds

C5_Witness ==
    /\ req.cls = "decoder" /\ req.norm = "layer_norm" /\ req.query_basis = "chebyshev"
    /\ blk = NoBlock /\ err = "ValueError_query_basis" /\ pc = "idle"

\* C6 as stated: in both blocks lifting is the identity exactly when
\* in_channels = hidden_channels, and to_out is the identity when
\* hidden_channels = out_channels.
C6_BothBlocksIdentity ==
    blk.cls # "none" =>
        /\ blk.lifting = Identity <=> blk.in_channels = blk.hidden_channels
        /\ blk.hidden_channels = blk.out_channels => blk.to_out = Identity

\* C6 amended: lifting as stated, in both blocks; to_out is the identity when
\* the widths match in the encoder only.  The decoder's to_out is always the
\* two-layer MLPLinear([hidden, hidden, out]).
C6_IdentityProjections ==
    blk.cls # "none" =>
        /\ blk.lifting = Identity <=> blk.in_channels = blk.hidden_channels
        /\ blk.lifting # Identity =>
              blk.lifting = Linear(blk.in_channels, blk.hidden_channels)
        /\ (blk.cls = "encoder" /\ blk.hidden_channels = blk.out_channels)
              => blk.to_out = Identity
        /\ blk.cls = "decoder" =>
              blk.to_out = MLPLinear(blk.hidden_channels, blk.out_channels)

C6_Witness ==
    /\ blk.cls = "decoder"
    /\ blk.in_channels = blk.hidden_channels /\ blk.hidden_channels = blk.out_channels
    /\ blk.lifting = Identity /\ blk.to_out.kind = "MLPLinear"

C8_NoFeedForward ==
    (blk.cls = "encoder" /\ ~blk.use_mlp) =>
        /\ blk.mlp_norm = Absent /\ blk.mlp_layer = Absent
        /\ pc \notin {"e104", "e105", "e106"}
        /\ u_mlp_skip = 0
        /\ \A k \in Nodes :
              /\ graph[k].layer \in
                    {"u", "pos", "lifting", "", "attention_norm", "attention_layer", "to_out"}
              /\ graph[k].op \in
                    {"input", "Linear", "permute", "InstanceNorm1d", "GroupNorm",
                     "LayerNorm", "attention", "add"}
        /\ Cardinality({k \in Nodes : graph[k].op = "add"}) <= 1
        /\ Cardinality({k \in Nodes : graph[k].op = "attention"}) <= 1
        /\ pc = "returned" =>
              /\ Cardinality({k \in Nodes : graph[k].op = "add"}) = 1
              /\ Cardinality({k \in Nodes : graph[k].op = "attention"}) = 1

C8_Witness ==
    /\ InEncoder /\ ~blk.use_mlp /\ pc = "returned"
    /\ blk.norm = "layer_norm" /\ blk.in_channels # blk.hidden_channels
    /\ blk.hidden_channels # blk.out_channels
    /\ Len(graph) = 7

\* get_normalization(group_norm, channels) returned GroupNorm with this many groups
GroupNormBuilt(groups) ==
    /\ blk.cls # "none"
    /\ blk.attention_norm = Layer("GroupNorm", req.hidden_channels, req.hidden_channels, groups)
    /\ blk.cls = "decoder" => blk.out_norm = blk.attention_norm
    /\ (blk.cls = "encoder" /\ blk.use_mlp) => blk.mlp_norm = blk.attention_norm

\* C9 as stated: for every channel count group_norm gives GroupNorm with 32
\* groups above 128 channels and 1 group otherwise.
C9_GroupsForEveryWidth ==
    (req.cls # "none" /\ req.norm = "group_norm"
     /\ (req.cls = "decoder" => req.query_basis \in BasisKinds)) =>
        GroupNormBuilt(IF req.hidden_channels > 128 THEN 32 ELSE 1)

\* C9 amended: so it is for every channel count that is at most 128 or a
\* multiple of 32; for any other, the construction of the 32-group transform
\* raises ValueError and get_normalization returns nothing.
C9_GroupsWhereDivisible ==
    (req.cls # "none" /\ req.norm = "group_norm"
     /\ (req.cls = "decoder" => req.query_basis \in BasisKinds)) =>
        IF req.hidden_channels <= 128 \/ req.hidden_channels % 32 = 0
        THEN GroupNormBuilt(IF req.hidden_channels > 128 THEN 32 ELSE 1)
        ELSE blk = NoBlock /\ err = "ValueError_num_groups"

C9_Witness ==
    /\ req.norm = "group_norm" /\ req.hidden_channels = 128
    /\ blk.cls = "encoder" /\ blk.attention_norm.kind = "GroupNorm"
    /\ blk.attention_norm.g = 1

\* The tensor forward holds after line 96, after line 98, after line 102, ...
Lifted(x) ==
    IF blk.lifting = Identity THEN x = 1
    ELSE graph[x].layer = "lifting" /\ graph[x].args = <<1>>

Attended(a, s) ==
    /\ graph[a].op = "attention" /\ graph[a].layer = "attention_layer"
    /\ NormOf(graph[a].args[1], s, "attention_norm")
    /\ Lifted(s)

AttentionResidual(d) ==
    /\ graph[d].op = "add"
    /\ Attended(graph[d].args[1], graph[d].args[2])
    /\ Width(graph, graph[d].args[1]) = blk.hidden_channels
    /\ Width(graph, graph[d].args[2]) = blk.hidden_channels

Refined(m, s) ==
    /\ graph[m].layer = "mlp_layer"
    /\ NormOf(graph[m].args[1], s, "mlp_norm")
    /\ AttentionResidual(s)

FeedForwardResidual(d) ==
    /\ graph[d].op = "add"
    /\ Refined(graph[d].args[1], graph[d].args[2])
    /\ Width(graph, graph[d].args[1]) = blk.hidden_channels
    /\ Width(graph, graph[d].args[2]) = blk.hidden_channels

BeforeProjection(x) ==
    IF blk.use_mlp THEN FeedForwardResidual(x) ELSE AttentionResidual(x)

Projected(x) ==
    IF blk.to_out = Identity THEN BeforeProjection(x)
    ELSE graph[x].layer = "to_out" /\ BeforeProjection(graph[x].args[1])

\* C10: the encoder's forward lifts, saves the residual, normalizes, attends,
\* adds the residual, then with use_mlp saves a residual, normalizes, applies
\* the feed-forward layer and adds the residual, then projects.  Attention and
\* feed-forward are given the normalized tensor, each addition adds back the
\* tensor saved before that normalization, and both operands have width
\* hidden_channels.
C10_EncoderOrder ==
    InEncoder =>
        /\ pc # "raised"
        /\ pc = "e96" => u = 1 /\ Len(graph) = 2
        /\ pc = "e97" => Lifted(u)
        /\ pc = "e98" => Lifted(u) /\ u_attention_skip = u
        /\ pc = "e102" => Attended(u, u_attention_skip)
        /\ pc \in {"e103", "e104"} =>
              AttentionResidual(u) /\ graph[u].args[2] = u_attention_skip
        /\ pc = "e105" => AttentionResidual(u) /\ u_mlp_skip = u
        /\ pc = "e106" => Refined(u, u_mlp_skip)
        /\ pc = "e107" => BeforeProjection(u)
        /\ (pc = "e107" /\ blk.use_mlp) => graph[u].args[2] = u_mlp_skip
        /\ pc = "e108" => Projected(u)
        /\ pc = "returned" => Projected(ret) /\ ret = Len(graph)

C10_Witness ==
    /\ InEncoder /\ pc = "returned" /\ blk.use_mlp /\ blk.norm = "instance_norm"
    /\ blk.lifting # Identity /\ blk.to_out # Identity
    /\ Len(graph) = 14

====
